---------------------------- MODULE Spec2Model ----------------------------
(***************************************************************************)
(* Model of loop-sampler/wav-to-header.py: convert_wavs_to_header(files,   *)
(* pwm_resolution) decodes each WAV file, reduces it to mono, normalises   *)
(* it by its peak, quantizes it and emits a C header (NUM_SAMPLES, the     *)
(* SampleData manifest and one int16_t array per file).                    *)
(*                                                                         *)
(* numpy float32 values are modelled exactly as pairs [m, e] standing for  *)
(* m * 2^e, and every float32 operation rounds its exact result to 24      *)
(* significant bits, ties to even, as IEEE-754 single precision does.      *)
(***************************************************************************)
EXTENDS Integers, Sequences, FiniteSets

(***************************************************************************)
(* Bounds of the model.                                                    *)
(***************************************************************************)
\* largest batch drawn from BatchFiles
MaxFiles == 2
\* longest file whose samples are drawn freely
MaxFrames == 2
\* samples of the freely drawn files lie in -SampleMax..SampleMax
SampleMax == 3
\* the ramp files have up to LongLen frames (more than one line of values)
LongLen == 11

(***************************************************************************)
(* Program constants.                                                      *)
(***************************************************************************)
\* default of the pwm_resolution parameter
DefaultResolution == 4096
\* upper limit of np.clip
ClipMax == 32767
\* values per line of an array literal
LineWidth == 10
\* significand width of np.float32
MantBits == 24
\* np.int16 is 16 bits wide
Int16Bits == 16

Abs(x) == IF x < 0 THEN -x ELSE x
Sgn(x) == IF x < 0 THEN -1 ELSE IF x > 0 THEN 1 ELSE 0
Min2(a, b) == IF a < b THEN a ELSE b
Max2(a, b) == IF a > b THEN a ELSE b

(***************************************************************************)
(* float32 arithmetic.                                                     *)
(***************************************************************************)
RECURSIVE BitLen(_)
BitLen(n) == IF n <= 0 THEN 0 ELSE 1 + BitLen(n \div 2)

\* n / 2^d rounded to the nearest integer, ties to even (n >= 0, d >= 0)
RoundShift(n, d) ==
    IF d = 0 THEN n
    ELSE LET q    == n \div (2^d)
             rem  == n % (2^d)
             half == 2^(d-1)
         IN  IF rem > half \/ (rem = half /\ q % 2 = 1) THEN q + 1 ELSE q

\* the float32 nearest to the non-negative value n * 2^e
Round24(n, e) ==
    LET d == Max2(0, BitLen(n) - MantBits)
    IN  [m |-> RoundShift(n, d), e |-> e + d]

\* an integer (or a half-integer, e = -1) held exactly in a float32
F32(m, e) == [m |-> m, e |-> e]

RECURSIVE ScaleUp(_, _, _)
\* the least k with n * 2^k >= p * 2^(MantBits-1), and n * 2^k
ScaleUp(n, p, k) ==
    IF n >= p * 2^(MantBits-1) THEN <<n, k>> ELSE ScaleUp(2*n, p, k+1)

\* a / b in float32, for 0 < b and |a| <= b
F32Div(a, b) ==
    IF a.m = 0 THEN F32(0, 0)
    ELSE LET sc  == ScaleUp(Abs(a.m), b.m, 0)
             q   == sc[1] \div b.m
             rem == sc[1] % b.m
             up  == 2*rem > b.m \/ (2*rem = b.m /\ q % 2 = 1)
         IN  [m |-> Sgn(a.m) * (IF up THEN q + 1 ELSE q),
              e |-> a.e - b.e - sc[2]]

\* a + 1 in float32, for -1 <= a <= 1
F32Add1(a) ==
    IF a.e >= 0 THEN Round24(a.m * 2^(a.e) + 1, 0)
    ELSE Round24(2^(-a.e) + a.m, a.e)

\* a / 2 in float32: exact, the exponent drops by one
F32Half(a) == [m |-> a.m, e |-> a.e - 1]

\* the product of a >= 0 and the integer r in float32; the exact product is
\* kept in two limbs hi * 2^12 + lo so that no intermediate exceeds 2^31
F32MulInt(a, r) ==
    LET mh == a.m \div 2^12
        ml == a.m % 2^12
        c  == ml * Abs(r)
        hi == mh * Abs(r) + c \div 2^12
        lo == c % 2^12
        len == IF hi > 0 THEN BitLen(hi) + 12 ELSE BitLen(lo)
        d  == Max2(0, len - MantBits)
        q  == IF d = 0 THEN hi * 2^12 + lo
              ELSE IF d < 12 THEN hi * 2^(12-d) + lo \div (2^d)
              ELSE hi \div (2^(d-12))
        rem == IF d = 0 THEN 0
               ELSE IF d < 12 THEN lo % (2^d)
               ELSE (hi % (2^(d-12))) * 2^12 + lo
        up == d > 0 /\ (rem > 2^(d-1) \/ (rem = 2^(d-1) /\ q % 2 = 1))
    IN  [m |-> Sgn(r) * (IF up THEN q + 1 ELSE q), e |-> a.e + d]

\* Trunc with the float rounded to the nearest integer instead
TruncNearest(a) ==
    IF a.e >= 0 THEN a.m * 2^(a.e)
    ELSE IF -a.e >= 31 THEN 0
    ELSE Sgn(a.m) * ((Abs(a.m) + 2^(-a.e - 1)) \div (2^(-a.e)))

\* the integer part of a float32, rounding toward zero
Trunc(a) ==
    IF a.e >= 0 THEN a.m * 2^(a.e)
    ELSE IF -a.e >= 31 THEN 0
    ELSE Sgn(a.m) * (Abs(a.m) \div (2^(-a.e)))

(***************************************************************************)
(* Quantization (lines 25-33).                                             *)
(***************************************************************************)
\* ToMono keeping the first channel instead of the mean
ToMonoLeft(ndim, data) == [i \in 1..Len(data) |-> F32(data[i][1], 0)]

\* data.mean(axis=1) followed by astype(np.float32): the mean of a frame
\* <<L, R>> is (L + R) / 2, exact in float32; a mono frame <<x>> gives x
ToMono(ndim, data) ==
    IF ndim = 2 THEN [i \in 1..Len(data) |-> F32(data[i][1] + data[i][2], -1)]
    ELSE [i \in 1..Len(data) |-> F32(data[i][1], 0)]

RECURSIVE MaxAbs(_, _)
\* the largest |m| among data[1..n]; every element has the same exponent
MaxAbs(data, n) ==
    IF n = 0 THEN 0 ELSE Max2(Abs(data[n].m), MaxAbs(data, n - 1))

\* np.max(np.abs(data)) of a non-empty sequence
Peak(data) == F32(MaxAbs(data, Len(data)), data[1].e)

\* Normalize without the division by the peak
NormalizeNone(data) == data

\* if peak > 0: data /= peak
Normalize(data) ==
    LET peak == Peak(data)
    IN  IF peak.m > 0 THEN [i \in 1..Len(data) |-> F32Div(data[i], peak)]
        ELSE data

\* Affine scaling by pwm_resolution instead of pwm_resolution - 1
AffineFullScale(x, resolution) == F32MulInt(F32Half(F32Add1(x)), resolution)

\* (data + 1) / 2 * (pwm_resolution - 1), one element
Affine(x, resolution) == F32MulInt(F32Half(F32Add1(x)), resolution - 1)

\* The results a build can give for astype(np.int16) of a float whose integer
\* part is outside int16 (undefined in C): the low 16 bits of the 32-bit
\* conversion, or the nearest int16.
CastModes == {"wrap", "saturate"}

\* astype(np.int16) of a float32 whose integer part is v
CastInt16(v, mode) ==
    LET half == 2^(Int16Bits - 1)
    IN  IF -half <= v /\ v < half THEN v
        ELSE IF mode = "wrap" THEN ((v + half) % (2 * half)) - half
        ELSE IF v < 0 THEN -half ELSE half - 1

\* Clip without the lower limit
ClipUpperOnly(v) == Min2(v, ClipMax)

\* np.clip(v, 0, 32767)
Clip(v) == Min2(Max2(v, 0), ClipMax)

\* line 33: the value emitted for one normalized sample
QuantizeOne(x, resolution, mode) ==
    Clip(CastInt16(Trunc(Affine(x, resolution)), mode))

\* lines 25-33: the scaled array of one decoded, non-empty file
Scaled(ndim, data, resolution, mode) ==
    LET norm == Normalize(ToMono(ndim, data))
    IN  [i \in 1..Len(data) |-> QuantizeOne(norm[i], resolution, mode)]

(***************************************************************************)
(* Identifier and text of an array (lines 35-40).                          *)
(***************************************************************************)
RECURSIVE LastIndexOf(_, _, _)
\* the last position <= n of character c in path, 0 when there is none
LastIndexOf(path, c, n) ==
    IF n = 0 THEN 0
    ELSE IF path[n] = c THEN n ELSE LastIndexOf(path, c, n - 1)

\* os.path.basename: what follows the last "/"
Basename(path) ==
    SubSeq(path, LastIndexOf(path, "/", Len(path)) + 1, Len(path))

RECURSIVE AllDots(_, _)
AllDots(base, n) == n = 0 \/ (base[n] = "." /\ AllDots(base, n - 1))

\* os.path.splitext(...)[0]: drop the extension, which starts at the last
\* "." unless only dots precede it
Stem(base) ==
    LET dot == LastIndexOf(base, ".", Len(base))
    IN  IF dot = 0 \/ AllDots(base, dot - 1) THEN base
        ELSE SubSeq(base, 1, dot - 1)

\* .replace(" ", "_")
ReplaceSpaces(s) == [i \in 1..Len(s) |-> IF s[i] = " " THEN "_" ELSE s[i]]

\* line 35
ArrayName(path) == ReplaceSpaces(Stem(Basename(path)))

\* Tokens of the generated text.
TNum(v) == [t |-> "num", v |-> v]
TComma  == [t |-> "comma", v |-> 0]
TSpace  == [t |-> "space", v |-> 0]
TNewline == [t |-> "newline", v |-> 0]
\* const int16_t <name>[] PROGMEM = {
TDecl   == [t |-> "decl", v |-> 0]
\* "};" and the newline after it
TClose  == [t |-> "close", v |-> 0]

RECURSIVE JoinValues(_)
\* ", ".join(map(str, chunk))
JoinValues(chunk) ==
    IF Len(chunk) = 0 THEN <<>>
    ELSE IF Len(chunk) = 1 THEN <<TNum(chunk[1])>>
    ELSE <<TNum(chunk[1]), TComma, TSpace>> \o JoinValues(Tail(chunk))

RECURSIVE ValueLines(_, _)
\* line 38: one joined line per slice scaled[i:i+10], i = 0, 10, ...
ValueLines(scaled, from) ==
    IF from > Len(scaled) THEN <<>>
    ELSE <<JoinValues(SubSeq(scaled, from,
                             Min2(from + LineWidth - 1, Len(scaled))))>>
         \o ValueLines(scaled, from + LineWidth)

RECURSIVE JoinLines(_)
\* "\n".join(lines)
JoinLines(lines) ==
    IF Len(lines) = 0 THEN <<>>
    ELSE IF Len(lines) = 1 THEN lines[1]
    ELSE lines[1] \o <<TNewline>> \o JoinLines(Tail(lines))

\* lines 36-41: the text of one array block
ArrayBlock(scaled) ==
    JoinLines(<<<<TDecl>>>> \o ValueLines(scaled, 1) \o <<<<TClose>>>>)

\* SampleDefinition numbering the entries from 1
SampleDefinitionOneBased(index, name, size) ==
    [index |-> index + 1, data |-> name, size |-> size, name |-> name]

\* line 42: one entry of the manifest
SampleDefinition(index, name, size) ==
    [index |-> index, data |-> name, size |-> size, name |-> name]

(***************************************************************************)
(* Inputs: the decoded files and the resolutions the caller may pass.      *)
(* A file is [name, ok, ndim, data]: ok says whether wavfile.read decodes  *)
(* it, ndim is data.ndim, data[i] is the tuple of channel values of frame  *)
(* i (one value for a mono file, two for a stereo file).                   *)
(***************************************************************************)
File(name, ok, ndim, data) ==
    [name |-> name, ok |-> ok, ndim |-> ndim, data |-> data]

FileNames ==
    { <<"a", " ", "b", ".", "w", "a", "v">>,
      <<"a", "_", "b", ".", "w", "a", "v">>,
      <<"/", "t", ".", "d", "/", "c", " ", ".", "w", "a", "v">> }

PlainName == <<"k", ".", "w", "a", "v">>

\* resolutions: negative, zero, one, small, the default, around the int16
\* limit and around twice that limit
Resolutions ==
    { -100000, -2 * ClipMax - 3, -2 * ClipMax - 2, -4, 0, 1, 2, 4,
      DefaultResolution, ClipMax + 1, ClipMax + 2, 2 * ClipMax + 2,
      2 * ClipMax + 3, 100000 }

MonoData ==
    UNION { [1..n -> {<<x>> : x \in -SampleMax..SampleMax}] : n \in 0..MaxFrames }

\* the second channel of a stereo file, from the first
Mirror(kind, x) ==
    IF kind = "same" THEN x ELSE IF kind = "negated" THEN -x ELSE 0

StereoData ==
    { [i \in 1..Len(d) |-> <<d[i][1], Mirror(kind, d[i][1])>>] :
        d \in MonoData, kind \in {"same", "negated", "zero"} }

\* a file longer than one line of values
Ramp(n) == [i \in 1..n |-> <<(i % (2 * SampleMax + 1)) - SampleMax>>]

SingleFiles ==
    { File(PlainName, TRUE, 1, d) : d \in MonoData }
    \cup { File(PlainName, TRUE, 2, d) : d \in StereoData }
    \cup { File(PlainName, TRUE, 1, Ramp(n)) :
             n \in (LineWidth - 1)..LongLen \cup {2 * LineWidth + 1} }
    \cup { File(PlainName, TRUE, 1, <<<<-1>>, <<0>>, <<1>>>>) }

BatchFiles ==
    { File(n, FALSE, 1, <<>>) : n \in FileNames }
    \cup { File(n, TRUE, 1, d) :
             n \in FileNames, d \in {<<>>, <<<<0>>>>, <<<<-1>>, <<1>>>>} }
    \cup { File(n, TRUE, 2, <<<<1, 1>>, <<-1, -1>>>>) : n \in FileNames }

Batches == UNION { [1..n -> BatchFiles] : n \in 0..MaxFiles }

NoOutput == [lines |-> <<>>, sample |-> <<>>, arrays |-> <<>>]

(***************************************************************************)
(* State.                                                                  *)
(***************************************************************************)
VARIABLES
    files,              \* the files argument
    pwm_resolution,     \* the pwm_resolution argument
    castMode,           \* what this build does on an out-of-range int16 cast
    pc,                 \* "start", "loop", "write", "done" or "failed"
    pos,                \* position of the for loop in files (1-based)
    header_lines,
    sample_definitions,
    sample_index,
    array_blocks,
    header_output,
    tmpfile,            \* the temporary file: [exists, content]
    result,             \* the returned path, or "none"
    error               \* the exception that ended the call, or "none"

vars == <<files, pwm_resolution, castMode, pc, pos, header_lines,
          sample_definitions, sample_index, array_blocks, header_output,
          tmpfile, result, error>>

Init ==
    /\ \/ /\ files \in { <<f>> : f \in SingleFiles }
          /\ pwm_resolution \in Resolutions
       \/ /\ files \in Batches
          /\ pwm_resolution = DefaultResolution
    /\ castMode \in CastModes
    /\ pc = "start"
    /\ pos = 1
    /\ header_lines = <<>>
    /\ sample_definitions = <<>>
    /\ sample_index = 0
    /\ array_blocks = <<>>
    /\ header_output = NoOutput
    /\ tmpfile = [exists |-> FALSE, content |-> <<>>]
    /\ result = "none"
    /\ error = "none"

(***************************************************************************)
(* Steps of convert_wavs_to_header.                                        *)
(***************************************************************************)
\* line 13: #define NUM_SAMPLES {len(files)}
DefineNumSamples(fs) == [t |-> "define NUM_SAMPLES", v |-> Len(fs)]

\* lines 9-21
Begin ==
    /\ pc = "start"
    /\ header_lines' = <<DefineNumSamples(files),
                         [t |-> "struct SampleData", v |-> 0]>>
    /\ pc' = "loop"
    /\ UNCHANGED <<files, pwm_resolution, castMode, pos, sample_definitions,
                   sample_index, array_blocks, header_output, tmpfile,
                   result, error>>

\* DecodeFail skipping the unreadable file and going on with the next
DecodeSkip ==
    /\ pc = "loop"
    /\ pos <= Len(files)
    /\ ~files[pos].ok
    /\ pos' = pos + 1
    /\ UNCHANGED <<files, pwm_resolution, castMode, pc, header_lines,
                   sample_definitions, sample_index, array_blocks,
                   header_output, tmpfile, result, error>>

\* line 23: wavfile.read raises on a file that is no readable WAV
DecodeFail ==
    /\ pc = "loop"
    /\ pos <= Len(files)
    /\ ~files[pos].ok
    /\ pc' = "failed"
    /\ error' = "DecodeError"
    /\ UNCHANGED <<files, pwm_resolution, castMode, pos, header_lines,
                   sample_definitions, sample_index, array_blocks,
                   header_output, tmpfile, result>>

\* line 29: np.max of an empty array raises ValueError
EmptyFail ==
    /\ pc = "loop"
    /\ pos <= Len(files)
    /\ files[pos].ok
    /\ Len(files[pos].data) = 0
    /\ pc' = "failed"
    /\ error' = "ValueError"
    /\ UNCHANGED <<files, pwm_resolution, castMode, pos, header_lines,
                   sample_definitions, sample_index, array_blocks,
                   header_output, tmpfile, result>>

\* lines 22-42: one iteration of the loop on a decodable, non-empty file
LoopBody ==
    /\ pc = "loop"
    /\ pos <= Len(files)
    /\ files[pos].ok
    /\ Len(files[pos].data) > 0
    /\ LET file == files[pos]
           scaled == Scaled(file.ndim, file.data, pwm_resolution, castMode)
           array_name == ArrayName(file.name)
       IN  /\ array_blocks' = Append(array_blocks,
                                 [name |-> array_name, text |-> ArrayBlock(scaled)])
           /\ sample_definitions' = Append(sample_definitions,
                 SampleDefinition(sample_index, array_name, Len(scaled)))
    /\ sample_index' = sample_index + 1
    /\ pos' = pos + 1
    /\ UNCHANGED <<files, pwm_resolution, castMode, pc, header_lines,
                   header_output, tmpfile, result, error>>

\* lines 44-45: the loop is over, the text is assembled
Assemble ==
    /\ pc = "loop"
    /\ pos > Len(files)
    /\ header_output' = [lines |-> header_lines,
                         sample |-> sample_definitions,
                         arrays |-> array_blocks]
    /\ pc' = "write"
    /\ UNCHANGED <<files, pwm_resolution, castMode, pos, header_lines,
                   sample_definitions, sample_index, array_blocks, tmpfile,
                   result, error>>

\* lines 47-49: the temporary file is created, written and its name returned
WriteFile ==
    /\ pc = "write"
    /\ tmpfile' = [exists |-> TRUE, content |-> <<header_output>>]
    /\ result' = "f.name"
    /\ pc' = "done"
    /\ UNCHANGED <<files, pwm_resolution, castMode, pos, header_lines,
                   sample_definitions, sample_index, array_blocks,
                   header_output, error>>

\* lines 47-48: creating the file fails, or writing it does (delete=False
\* leaves the created file behind)
WriteFail ==
    /\ pc = "write"
    /\ \E created \in BOOLEAN :
          tmpfile' = [exists |-> created, content |-> <<>>]
    /\ error' = "IOError"
    /\ pc' = "failed"
    /\ UNCHANGED <<files, pwm_resolution, castMode, pos, header_lines,
                   sample_definitions, sample_index, array_blocks,
                   header_output, result>>

Next ==
    \/ Begin
    \/ DecodeFail
    \/ EmptyFail
    \/ LoopBody
    \/ Assemble
    \/ WriteFile
    \/ WriteFail

Spec == Init /\ [][Next]_vars

(***************************************************************************)
(* Reading the output, and the arithmetic the claims are stated in.        *)
(***************************************************************************)
NumTokens(text) == SelectSeq(text, LAMBDA tok : tok.t = "num")
CommaTokens(text) == SelectSeq(text, LAMBDA tok : tok.t = "comma")

\* the values of the array emitted for the i-th file
Emitted(i) ==
    LET nums == NumTokens(array_blocks[i].text)
    IN  [k \in 1..Len(nums) |-> nums[k].v]

\* the files whose array has been emitted
Processed == 1..Len(array_blocks)

\* twice the mean of the channels of frame k of a stereo file
ChannelSum(file, k) == file.data[k][1] + file.data[k][2]

\* the mono sample of frame k, in units of 1/ndim
MonoTimesNdim(file, k) ==
    IF file.ndim = 2 THEN ChannelSum(file, k) ELSE file.data[k][1]

RECURSIVE PeakTimesNdim(_, _)
PeakTimesNdim(file, n) ==
    IF n = 0 THEN 0
    ELSE Max2(Abs(MonoTimesNdim(file, n)), PeakTimesNdim(file, n - 1))

FilePeak(file) == PeakTimesNdim(file, Len(file.data))

\* (s / peak + 1) / 2 * (resolution - 1) in exact arithmetic, truncated
\* toward zero; s = 0 stands for every sample of a silent file (peak = 0)
ExactQuantum(s, peak, resolution) ==
    LET num == IF peak = 0 THEN resolution - 1
               ELSE (s + peak) * (resolution - 1)
        den == IF peak = 0 THEN 2 ELSE 2 * peak
    IN  Sgn(num) * (Abs(num) \div den)

\* floor((0 + 1) / 2 * (resolution - 1))
SilenceMidpoint(resolution) == (resolution - 1) \div 2

\* every sample of the file is zero after the reduction to mono
Silent(file) == \A k \in 1..Len(file.data) : MonoTimesNdim(file, k) = 0

\* the loop has taken up the i-th file
Reached(i) == i < pos \/ (i = pos /\ pc = "failed")

(***************************************************************************)
(* Claims.                                                                 *)
(***************************************************************************)
\* C1: whatever the batch, the samples and the resolution, every value
\* emitted in a data array satisfies 0 <= v <= 32767.
C1_ValuesIn16BitRange ==
    \A i \in Processed : \A k \in 1..Len(Emitted(i)) :
        0 <= Emitted(i)[k] /\ Emitted(i)[k] <= ClipMax

C1_Witness ==
    /\ pc = "done"
    /\ pwm_resolution = 100000
    /\ \E i \in Processed : \E k \in 1..Len(Emitted(i)) : Emitted(i)[k] = ClipMax

C3_Original ==
    (1 <= pwm_resolution /\ pwm_resolution <= ClipMax + 1) =>
        \A i \in Processed :
            FilePeak(files[i]) > 0 =>
                \A k \in 1..Len(Emitted(i)) :
                    Emitted(i)[k] = ExactQuantum(MonoTimesNdim(files[i], k),
                                                 FilePeak(files[i]), pwm_resolution)

\* C3: for a non-silent file and a resolution between 1 and 32768, each
\* emitted value is the truncation of (s/peak + 1) / 2 * (resolution - 1)
\* computed in single precision, which is within 1 of the exact truncation;
\* a sample equal to -peak gives 0, one equal to +peak gives resolution - 1
\* and a zero sample gives floor((resolution - 1) / 2).
C3_Amended ==
    (1 <= pwm_resolution /\ pwm_resolution <= ClipMax + 1) =>
        \A i \in Processed :
            FilePeak(files[i]) > 0 =>
                \A k \in 1..Len(Emitted(i)) :
                    LET s == MonoTimesNdim(files[i], k)
                        peak == FilePeak(files[i])
                        v == Emitted(i)[k]
                    IN  /\ Abs(v - ExactQuantum(s, peak, pwm_resolution)) <= 1
                        /\ s = -peak => v = 0
                        /\ s = peak => v = pwm_resolution - 1
                        /\ s = 0 => v = SilenceMidpoint(pwm_resolution)

C3_Witness ==
    /\ pc = "done"
    /\ pwm_resolution = DefaultResolution
    /\ Len(files) = 1
    /\ files[1].ndim = 1
    /\ files[1].data = <<<<-1>>, <<0>>, <<1>>>>
    /\ Emitted(1) = <<0, 2047, 4095>>

\* C4 as stated: for a silent file and any resolution, every emitted value
\* is floor((0 + 1) / 2 * (resolution - 1)).
C4_Original ==
    \A i \in Processed :
        Silent(files[i]) =>
            \A k \in 1..Len(Emitted(i)) :
                Emitted(i)[k] = SilenceMidpoint(pwm_resolution)

\* C4: a silent file with at least one frame (peak = 0) is never what makes
\* the call fail, and every value emitted for it is
\* floor((resolution - 1) / 2) when 1 <= resolution <= 65536 and 0 when
\* -65536 <= resolution <= 0.
C4_Amended ==
    /\ \A i \in Processed :
          Silent(files[i]) =>
              \A k \in 1..Len(Emitted(i)) :
                  /\ (1 <= pwm_resolution /\ pwm_resolution <= 2 * ClipMax + 2)
                        => Emitted(i)[k] = SilenceMidpoint(pwm_resolution)
                  /\ (-2 * ClipMax - 2 <= pwm_resolution /\ pwm_resolution <= 0)
                        => Emitted(i)[k] = 0
    /\ (pc = "failed" /\ pos <= Len(files))
          => ~(files[pos].ok /\ Len(files[pos].data) > 0 /\ Silent(files[pos]))

C4_Witness ==
    /\ pc = "done"
    /\ pwm_resolution = 2 * ClipMax + 2
    /\ Len(files) = 1
    /\ Len(files[1].data) = 2
    /\ Silent(files[1])
    /\ Emitted(1) = <<ClipMax, ClipMax>>

\* C5: for every file of the batch, files of 0 frames included, the number
\* of values of its array and the size of its manifest entry both equal
\* its number of frames.
C5_Claim ==
    \A i \in 1..Len(files) :
        (files[i].ok /\ Reached(i)) =>
            /\ i \in Processed
            /\ Len(Emitted(i)) = Len(files[i].data)
            /\ sample_definitions[i].size = Len(files[i].data)

\* C6: the manifest entry at position i carries index i - 1 and the arrays
\* follow in input order, whatever the file names; the written output
\* declares NUM_SAMPLES as the number N of files and has N entries and N
\* arrays.
C6_ManifestOrder ==
    /\ Len(array_blocks) = Len(sample_definitions)
    /\ \A i \in 1..Len(sample_definitions) :
          /\ sample_definitions[i].index = i - 1
          /\ sample_definitions[i].data = array_blocks[i].name
          /\ array_blocks[i].name = ArrayName(files[i].name)
    /\ pc = "done" =>
          LET out == tmpfile.content[1]
          IN  /\ out.lines[1].t = "define NUM_SAMPLES"
              /\ out.lines[1].v = Len(files)
              /\ Len(out.sample) = Len(files)
              /\ Len(out.arrays) = Len(files)
              /\ \A i \in 1..Len(files) :
                    /\ out.sample[i].index = i - 1
                    /\ out.sample[i].data = out.arrays[i].name
                    /\ out.arrays[i].name = ArrayName(files[i].name)

C6_Witness ==
    /\ pc = "done"
    /\ Len(files) = 2
    /\ files[1].name # files[2].name
    /\ tmpfile.content[1].sample[1].name = tmpfile.content[1].sample[2].name
    /\ tmpfile.content[1].sample[2].index = 1

\* C7: if a file of the batch cannot be decoded, the loop never goes past
\* it, no output file is created or written and no path is returned.
C7_DecodeFailureAborts ==
    \A i \in 1..Len(files) :
        ~files[i].ok =>
            /\ pos <= i
            /\ pc \notin {"write", "done"}
            /\ ~tmpfile.exists
            /\ tmpfile.content = <<>>
            /\ result = "none"

C7_Witness ==
    /\ pc = "failed"
    /\ error = "DecodeError"
    /\ pos = 2
    /\ Len(array_blocks) = 1
    /\ ~tmpfile.exists
    /\ result = "none"

\* C8: in each array literal every two consecutive values are separated by
\* a comma, also across a line break, so n values come with n - 1 commas.
C8_Claim ==
    \A i \in Processed :
        Len(CommaTokens(array_blocks[i].text)) = Len(Emitted(i)) - 1

\* C9: a two-channel file is quantized from the per-frame mean of its
\* channels, and its peak is the peak of those means: frames whose channels
\* cancel give the value of silence, the frame of largest mean gives
\* resolution - 1, the frame of most negative mean gives 0.
C9_StereoMean ==
    \A i \in Processed :
        files[i].ndim = 2 =>
            LET peak2 == FilePeak(files[i])
            IN  \A k \in 1..Len(Emitted(i)) :
                    LET sum == ChannelSum(files[i], k)
                        v == Emitted(i)[k]
                    IN  /\ (1 <= pwm_resolution /\ pwm_resolution <= 2 * ClipMax + 2
                            /\ peak2 = 0)
                              => v = SilenceMidpoint(pwm_resolution)
                        /\ (1 <= pwm_resolution /\ pwm_resolution <= ClipMax + 1
                            /\ peak2 > 0)
                              => /\ sum = peak2 => v = pwm_resolution - 1
                                 /\ sum = -peak2 => v = 0
                                 /\ sum = 0 => v = SilenceMidpoint(pwm_resolution)
                                 /\ Abs(v - ExactQuantum(sum, peak2, pwm_resolution)) <= 1

C9_Witness ==
    /\ pc = "done"
    /\ pwm_resolution = DefaultResolution
    /\ Len(files) = 1
    /\ files[1].ndim = 2
    /\ files[1].data = <<<<1, -1>>, <<-1, 1>>>>
    /\ Emitted(1) = <<2047, 2047>>

\* C10: for a resolution above 32768, every sample whose truncated affine
\* value exceeds 32767 is emitted as exactly 32767.
C10_Claim ==
    pwm_resolution > ClipMax + 1 =>
        \A i \in Processed : \A k \in 1..Len(Emitted(i)) :
            ExactQuantum(MonoTimesNdim(files[i], k), FilePeak(files[i]),
                         pwm_resolution) > ClipMax
                => Emitted(i)[k] = ClipMax

=============================================================================
